---- MODULE Spec2Model ----
(***************************************************************************)
(* State-machine model of the interactive widgets of the WebPage           *)
(* repository:                                                             *)
(*   InteractiveArm  (src/unnamed/part_001, src/src/App.tsx)               *)
(*   WordlePattern   (src/src/apps/WordlePattern.tsx)                      *)
(*   RTTManipulator  (src/src/pages/School.tsx)                            *)
(* Each widget is a React component: its useState cells are the variables, *)
(* its event handlers, effects and timer callbacks are the actions, and    *)
(* its useMemo values are operators over the state.                        *)
(***************************************************************************)
EXTENDS Integers, Sequences, FiniteSets, TLC

VARIABLES
  \* ---- InteractiveArm (part_001:125-154)
  armMounted,   \* the component is mounted
  numArms, l1, l2, l3, t1deg, t2deg, t3deg,
  rawCells,     \* 3x3 matrix of cell texts
  msg,          \* null or the inline error message
  Tuser,        \* null or the evaluated 3x3 matrix
  normalizeW,
  evalTimer,    \* the pending setTimeout of the evaluation effect, or null
  changes       \* number of input changes since mount (bounds the model)

armVars == <<armMounted, numArms, l1, l2, l3, t1deg, t2deg, t3deg,
             rawCells, msg, Tuser, normalizeW, evalTimer, changes>>

null == << >>

(***************************************************************************)
(* NUMBERS.  The JavaScript numbers the arm computes with are real numbers *)
(* built from integers and from cos/sin of angles that are whole multiples *)
(* of 5 degrees.  They are kept exactly, as elements of the cyclotomic     *)
(* field Q(z), z = exp(i*pi/36) (a rotation by 5 degrees), whose minimal   *)
(* polynomial is z^24 - z^12 + 1 (so z^36 = -1):                           *)
(*    [den |-> d, c |-> f]   stands for   (SUM_k f[k] * z^k) / d           *)
(* with d >= 1, DOMAIN f a subset of 0..23, no f[k] = 0 and no common      *)
(* factor of d and the f[k].  1, z, .., z^23 is a basis, so two records    *)
(* are equal exactly when the reals are equal: the trigonometric           *)
(* identities the code relies on are decided by computation, not assumed.  *)
(* cos(k*5deg) = (z^k + z^-k)/2.                                           *)
(***************************************************************************)
HalfTurn == 180 \div 5      \* grid steps in a half turn: z^HalfTurn = -1
Third == HalfTurn \div 3    \* z^(2*Third) = z^Third - 1

Abs(n) == IF n < 0 THEN -n ELSE n

RECURSIVE Gcd(_, _)
Gcd(a, b) == IF b = 0 THEN Abs(a) ELSE Gcd(Abs(b), Abs(a) % Abs(b))

RECURSIVE SumOver(_, _)
SumOver(S, f) ==
  IF S = {} THEN 0
  ELSE LET x == CHOOSE y \in S : TRUE IN f[x] + SumOver(S \ {x}, f)

RECURSIVE GcdOver(_, _, _)
GcdOver(S, f, g) ==
  IF S = {} THEN g
  ELSE LET x == CHOOSE y \in S : TRUE IN GcdOver(S \ {x}, f, Gcd(g, f[x]))

At(f, k) == IF k \in DOMAIN f THEN f[k] ELSE 0

\* normal form of (SUM_k f[k] z^k)/d, f any function on a subset of 0..35:
\* z^k = z^(k-12) - z^(k-24) for k in 24..35, then lowest terms
Scaled(d, r, nz, g) == [den |-> d \div g, c |-> [k \in nz |-> r[k] \div g]]
Lowest(d, r, nz) == Scaled(d, r, nz, GcdOver(nz, r, d))
Reduced(f, hi) ==
  [j \in {k \in DOMAIN f : k < 2 * Third} \cup {k - Third : k \in hi}
         \cup {k - 2 * Third : k \in hi} |->
     At(f, j) + (IF j >= Third THEN At(f, j + Third) ELSE 0)
              - (IF j < Third THEN At(f, j + 2 * Third) ELSE 0)]
NonZero(r) == {k \in DOMAIN r : r[k] # 0}
LowestOf(d, r) == Lowest(d, r, NonZero(r))
Norm(d, f) == LowestOf(d, Reduced(f, {k \in DOMAIN f : k >= 2 * Third}))

Zero == [den |-> 1, c |-> [k \in {} |-> 0]]
NInt(n) == IF n = 0 THEN Zero ELSE [den |-> 1, c |-> [k \in {0} |-> n]]
One == NInt(1)

Coef(a, k) == At(a.c, k)

\* coefficient of z^m for m in -35..35, using z^(m+36) = -z^m
SCoef(a, m) == IF m >= 0 THEN Coef(a, m) ELSE -Coef(a, m + HalfTurn)

\* a + b over the common denominator L
AddOver(a, b, L) ==
  Norm(L, [k \in DOMAIN a.c \cup DOMAIN b.c |->
             Coef(a, k) * (L \div a.den) + Coef(b, k) * (L \div b.den)])
Add(a, b) ==
  IF a = Zero THEN b ELSE IF b = Zero THEN a
  ELSE AddOver(a, b, (a.den \div Gcd(a.den, b.den)) * b.den)

Neg(a) == [den |-> a.den, c |-> [k \in DOMAIN a.c |-> -a.c[k]]]
Sub(a, b) == Add(a, Neg(b))

Mul(a, b) ==
  IF a = Zero \/ b = Zero THEN Zero
  ELSE IF a = One THEN b ELSE IF b = One THEN a ELSE
  LET tgt == {(i + j) % HalfTurn : i \in DOMAIN a.c, j \in DOMAIN b.c}
  IN  Norm(a.den * b.den,
           [k \in tgt |-> SumOver(DOMAIN a.c, [i \in DOMAIN a.c |-> a.c[i] * SCoef(b, k - i)])])

\* a / n for an integer n # 0
DivInt(a, n) ==
  Norm(a.den * Abs(n), [k \in DOMAIN a.c |-> IF n < 0 THEN -a.c[k] ELSE a.c[k]])

\* z^k for any integer k
UnitAt(e) == Norm(1, [j \in {e % HalfTurn} |-> IF e < HalfTurn THEN 1 ELSE -1])
Unit(k) == UnitAt(k % (2 * HalfTurn))

\* a number is rational exactly when only z^0 occurs
IsRational(a) == DOMAIN a.c \subseteq {0}

\* a / b for a rational b # 0 (b = p/q: a * q / p)
DivRat(a, b) == DivInt(Mul(a, NInt(b.den)), b.c[0])

\* 1000 * cos(k * 5deg), k = 0..23, rounded: the real part of z^k.  Used
\* only to compare a real number with a rational threshold.
CosMilli == <<1000, 996, 985, 966, 940, 906, 866, 819, 766, 707, 643, 574,
              500, 423, 342, 259, 174, 87, 0, -87, -174, -259, -342, -423>>

\* the real number a, in thousandths (a is real: its imaginary part is 0)
Milli(a) == SumOver(DOMAIN a.c,
              [k \in DOMAIN a.c |-> (a.c[k] \div a.den) * CosMilli[k + 1]
                                    + ((a.c[k] % a.den) * CosMilli[k + 1]) \div a.den])

\* a < n for an integer n
LessThan(a, n) ==
  IF IsRational(a) THEN Coef(a, 0) < n * a.den ELSE Milli(a) < 1000 * n

(***************************************************************************)
(* Radians.  toRad(deg) = deg*pi/180 is kept as the fraction of pi in      *)
(* lowest terms, [n |-> p, d |-> q] = p*pi/q.                              *)
(***************************************************************************)
RadOver(p, q, g) == [n |-> p \div g, d |-> q \div g]
RadNorm(p, q) == RadOver(p, q, Gcd(p, q))
RadAdd(a, b) == RadNorm(a.n * b.d + b.n * a.d, a.d * b.d)
RadZero == [n |-> 0, d |-> 1]

\* grid steps (multiples of 5 degrees) of a radian value
GridSteps(r) == (r.n * HalfTurn) \div r.d

\* Math.cos / Math.sin on radians
CosSteps(k) == DivInt(Add(Unit(k), Unit(-k)), 2)
MathCos(r) == CosSteps(GridSteps(r))
MathSin(r) == MathCos(RadAdd(r, RadNorm(-1, 2)))

(***************************************************************************)
(* INTERACTIVE ARM: geometry helpers (part_001:64-84)                      *)
(***************************************************************************)
\* (deg * Math.PI) / 180
toRad(deg) == RadNorm(deg, 180)

RotOf(c, s) == << <<c, Neg(s), Zero>>, <<s, c, Zero>>, <<Zero, Zero, One>> >>
Rot2D(thetaRad) == RotOf(MathCos(thetaRad), MathSin(thetaRad))

Tran2D(dx, dy) ==
  << <<One, Zero, dx>>, <<Zero, One, dy>>, <<Zero, Zero, One>> >>

RECURSIVE DotFrom(_, _, _, _, _)
\* sum += A[i][k]*B[k][j] for k = k0..kmax
DotFrom(A, B, i, j, k) ==
  IF k > Len(B) THEN Zero
  ELSE Add(Mul(A[i][k], B[k][j]), DotFrom(A, B, i, j, k + 1))

matMul(A, B) ==
  [i \in 1..Len(A) |-> [j \in 1..Len(B[1]) |-> DotFrom(A, B, i, j, 1)]]

RECURSIVE RowDot(_, _, _)
RowDot(row, v, j) ==
  IF j > Len(row) THEN Zero ELSE Add(Mul(row[j], v[j]), RowDot(row, v, j + 1))

matVec(A, v) == [i \in 1..Len(A) |-> RowDot(A[i], v, 1)]

matIdentity == << <<One, Zero, Zero>>, <<Zero, One, Zero>>, <<Zero, Zero, One>> >>

\* the point p = [0,0,1]^T
Origin == <<Zero, Zero, One>>

(***************************************************************************)
(* FK for 1..3 arms (part_001:173-204), as functions of the slider values  *)
(***************************************************************************)
Slice(seq, n) == SubSeq(seq, 1, n)

FKStepMutant(T, R, Tr) == matMul(T, matMul(Tr, R))
\* one pass of the loop body: T = matMul(T, matMul(R, Tr))
FKStep(T, R, Tr) == matMul(T, matMul(R, Tr))

RECURSIVE TfkLoop(_, _, _, _, _)
TfkLoop(T, i, n, angs, lens) ==
  IF i > n THEN T
  ELSE TfkLoop(FKStep(T, Rot2D(toRad(angs[i])), Tran2D(NInt(lens[i]), Zero)),
               i + 1, n, angs, lens)

TfkOf(n, angs, lens) == TfkLoop(matIdentity, 1, n, angs, lens)

PointXY(p) == [x |-> p[1], y |-> p[2]]
endFKOf(T) == PointXY(matVec(T, Origin))

RECURSIVE JointsLoop(_, _, _, _, _, _, _, _)
\* pts.push({x,y}) and the next pass
JointsPush(pts, angleSum, x, y, i, n, angs, lens) ==
  JointsLoop(Append(pts, [x |-> x, y |-> y]), angleSum, x, y, i + 1, n, angs, lens)
JointsStepMutant(pts, angleSum, x, y, i, n, angs, lens) ==
  JointsPush(pts, angleSum,
             Add(x, Mul(NInt(lens[i]), MathCos(toRad(angs[i])))),
             Add(y, Mul(NInt(lens[i]), MathSin(toRad(angs[i])))), i, n, angs, lens)
\* x += lengths[i]*cos(angleSum); y += lengths[i]*sin(angleSum)
JointsStep(pts, angleSum, x, y, i, n, angs, lens) ==
  JointsPush(pts, angleSum,
             Add(x, Mul(NInt(lens[i]), MathCos(angleSum))),
             Add(y, Mul(NInt(lens[i]), MathSin(angleSum))), i, n, angs, lens)
\* angleSum += toRad(anglesDeg[i])
JointsLoop(pts, angleSum, x, y, i, n, angs, lens) ==
  IF i > n THEN pts
  ELSE JointsStep(pts, RadAdd(angleSum, toRad(angs[i])), x, y, i, n, angs, lens)

jointsOf(n, angs, lens) ==
  JointsLoop(<<[x |-> Zero, y |-> Zero]>>, RadZero, Zero, Zero, 1, n, angs, lens)

anglesDeg == Slice(<<t1deg, t2deg, t3deg>>, numArms)
lengths   == Slice(<<l1, l2, l3>>, numArms)
Tfk       == TfkOf(numArms, anglesDeg, lengths)
endFK     == endFKOf(Tfk)
joints    == jointsOf(numArms, anglesDeg, lengths)

(***************************************************************************)
(* The user matrix: cell texts, math.evaluate and the evaluation callback  *)
(* (part_001:86-97, 145-171).  A cell text is a string; the texts the      *)
(* model types are listed in Parse, which gives the syntax tree mathjs     *)
(* builds (th1 is written for the scope name theta-1).                     *)
(***************************************************************************)
Lit(n)        == [op |-> "lit", n |-> n]
Sym(name)     == [op |-> "sym", name |-> name]
Call(f, a)    == [op |-> "call", f |-> f, a |-> a]
Bin(o, a, b)  == [op |-> o, a |-> a, b |-> b]
Minus(a)      == [op |-> "neg", a |-> a]
SyntaxError(m) == [op |-> "syntaxError", message |-> m]
Empty         == [op |-> "empty"]

Th12 == Bin("+", Sym("th1"), Sym("th2"))

Parse(text) ==
  CASE text = "0" -> Lit(0)
    [] text = "1" -> Lit(1)
    [] text = "2" -> Lit(2)
    [] text = "" -> Empty
    [] text = "1/0" -> Bin("/", Lit(1), Lit(0))
    [] text = "foo" -> Sym("foo")
    [] text = "cos(th1+th2)" -> Call("cos", Th12)
    [] text = "-sin(th1+th2)" -> Minus(Call("sin", Th12))
    [] text = "sin(th1+th2)" -> Call("sin", Th12)
    [] text = "l1*cos(th1)+l2*cos(th1+th2)" ->
         Bin("+", Bin("*", Sym("l1"), Call("cos", Sym("th1"))),
                  Bin("*", Sym("l2"), Call("cos", Th12)))
    [] text = "l1*sin(th1)+l2*sin(th1+th2)" ->
         Bin("+", Bin("*", Sym("l1"), Call("sin", Sym("th1"))),
                  Bin("*", Sym("l2"), Call("sin", Th12)))
    [] text = "l1*cos(th1)" -> Bin("*", Sym("l1"), Call("cos", Sym("th1")))
    [] text = "l1*cosd(th1d)" -> Bin("*", Sym("l1"), Call("cosd", Sym("th1d")))
    [] text = "2*l1*cos(th1)" ->
         Bin("*", Bin("*", Lit(2), Sym("l1")), Call("cos", Sym("th1")))
    [] text = "cos(th1" -> SyntaxError("Parenthesis ) expected (char 8)")
    [] OTHER -> SyntaxError("Value expected (char 1)")

DEFAULT_MATRIX ==
  << <<"cos(th1+th2)", "-sin(th1+th2)", "l1*cos(th1)+l2*cos(th1+th2)">>,
     <<"sin(th1+th2)", "cos(th1+th2)", "l1*sin(th1)+l2*sin(th1+th2)">>,
     <<"0", "0", "1">> >>

\* the scope object built by the callback from the values it closed over
ScopeOf(in) ==
  [l1 |-> [t |-> "num", v |-> NInt(in.l1)],
   l2 |-> [t |-> "num", v |-> NInt(in.l2)],
   l3 |-> [t |-> "num", v |-> NInt(in.l3)],
   th1 |-> [t |-> "rad", v |-> toRad(in.t1deg)],
   th2 |-> [t |-> "rad", v |-> toRad(in.t2deg)],
   th3 |-> [t |-> "rad", v |-> toRad(in.t3deg)],
   th1d |-> [t |-> "num", v |-> NInt(in.t1deg)],
   th2d |-> [t |-> "num", v |-> NInt(in.t2deg)],
   th3d |-> [t |-> "num", v |-> NInt(in.t3deg)],
   pi |-> [t |-> "rad", v |-> RadNorm(1, 1)]]

Thrown(m) == [t |-> "throw", message |-> m]
NonFinite == [t |-> "nonfinite"]
Undefined == [t |-> "undefined"]
NumV(v)   == [t |-> "num", v |-> v]
RadV(v)   == [t |-> "rad", v |-> v]

\* math.evaluate(expr, scope): a number (plain, or an angle in radians),
\* Infinity/NaN, undefined, or a thrown error.  Values are combined only the
\* way the listed texts combine them.
RECURSIVE Evaluate(_, _)
Evaluate(e, scope) ==
  CASE e.op = "lit" -> NumV(NInt(e.n))
    [] e.op = "empty" -> Undefined
    [] e.op = "syntaxError" -> Thrown(e.message)
    [] e.op = "sym" ->
         IF e.name \in DOMAIN scope THEN scope[e.name]
         ELSE Thrown("Undefined symbol " \o e.name)
    [] e.op = "neg" ->
         LET a == Evaluate(e.a, scope)
         IN  IF a.t = "num" THEN NumV(Neg(a.v)) ELSE a
    [] e.op = "call" ->
         LET a == Evaluate(e.a, scope)
         IN  IF a.t \notin {"num", "rad"} THEN a
             ELSE IF e.f = "cos" THEN NumV(MathCos(a.v))
             ELSE IF e.f = "sin" THEN NumV(MathSin(a.v))
             ELSE IF e.f = "cosd" THEN NumV(MathCos(toRad(Coef(a.v, 0))))
             ELSE IF e.f = "sind" THEN NumV(MathSin(toRad(Coef(a.v, 0))))
             ELSE Thrown("Undefined function " \o e.f)
    [] OTHER ->
         LET a == Evaluate(e.a, scope)
             b == Evaluate(e.b, scope)
         IN  IF a.t \notin {"num", "rad"} THEN a
             ELSE IF b.t \notin {"num", "rad"} THEN b
             ELSE IF e.op = "+" THEN
                    (IF a.t = "rad" THEN RadV(RadAdd(a.v, b.v)) ELSE NumV(Add(a.v, b.v)))
             ELSE IF e.op = "*" THEN NumV(Mul(a.v, b.v))
             ELSE IF b.v = Zero THEN NonFinite
             ELSE NumV(DivRat(a.v, b.v))

CheckNumberMutant(v) ==
  IF v.t = "throw" THEN [ok |-> FALSE, message |-> v.message]
  ELSE IF v.t # "num" THEN [ok |-> TRUE, n |-> Zero]
  ELSE [ok |-> TRUE, n |-> v.v]
\* n = typeof v === "number" ? v : v?.valueOf?.();
\* if (typeof n !== "number" || !isFinite(n)) throw new Error("NaN")
CheckNumber(v) ==
  IF v.t = "throw" THEN [ok |-> FALSE, message |-> v.message]
  ELSE IF v.t # "num" THEN [ok |-> FALSE, message |-> "NaN"]
  ELSE [ok |-> TRUE, n |-> v.v]

\* the body of row.map(expr => ...): the number, or the error thrown
EvalCell(expr, scope) == CheckNumber(Evaluate(Parse(expr), scope))

\* cells in the order rawCells.map(row => row.map(..)) visits them
CellOrder == << <<1,1>>, <<1,2>>, <<1,3>>, <<2,1>>, <<2,2>>, <<2,3>>, <<3,1>>, <<3,2>>, <<3,3>> >>

ErrorPrefix == "Matrix parse/eval error: "

ResAt(res, k) == res[CellOrder[k][1]][CellOrder[k][2]]
FirstOf(bad) == CHOOSE m \in bad : \A o \in bad : m <= o

\* catch (e): setTuser(null); setMsg("Matrix parse/eval error: " + e.message)
Caught(e) == << null, <<ErrorPrefix, e.message>> >>

\* the outcome, given each cell's result and the set of cells that threw
\* (the first throw ends the map); else setTuser(evaluated); setMsg(null)
Outcome(res, bad) ==
  IF bad = {}
  THEN << [i \in 1..3 |-> [j \in 1..3 |-> res[i][j].n]], null >>
  ELSE Caught(ResAt(res, FirstOf(bad)))

OutcomeOf(res) == Outcome(res, {k \in 1..9 : ~ResAt(res, k).ok})

EvalAll(cells, scope) == [i \in 1..3 |-> [j \in 1..3 |-> EvalCell(cells[i][j], scope)]]

\* the try/catch of the callback: the new <<Tuser, msg>>
EvaluateMatrix(cells, in) == OutcomeOf(EvalAll(cells, ScopeOf(in)))

(***************************************************************************)
(* User point and match error (part_001:206-221, 404-411)                  *)
(***************************************************************************)
PointXYW(p) == [x |-> p[1], y |-> p[2], w |-> p[3]]
endUserRawOf(T) == IF T = null THEN null ELSE PointXYW(matVec(T, Origin))
endUserRaw == endUserRawOf(Tuser)

endUserOfMutant(raw, norm) ==
  IF raw = null THEN null ELSE [x |-> raw.x, y |-> raw.y]
endUserOf(raw, norm) ==
  IF raw = null THEN null
  ELSE IF norm /\ raw.w # Zero
       THEN [x |-> DivRat(raw.x, raw.w), y |-> DivRat(raw.y, raw.w)]
       ELSE [x |-> raw.x, y |-> raw.y]
endUser == endUserOf(endUserRaw, normalizeW)

\* Math.hypot(dx, dy), kept as its square dx^2 + dy^2 (an exact number);
\* the distance is 0 exactly when the square is Zero and is below 1 exactly
\* when the square is.
Hypot(dx, dy) == Add(Mul(dx, dx), Mul(dy, dy))

errOfMutant(eu, fk) == IF eu # null THEN Hypot(Add(eu.x, fk.x), Add(eu.y, fk.y)) ELSE null
errOf(eu, fk) == IF eu # null THEN Hypot(Sub(eu.x, fk.x), Sub(eu.y, fk.y)) ELSE null
err == errOf(endUser, endFK)

\* the text of the "Match error" panel
MatchTextOf(e) ==
  IF e # null THEN (IF LessThan(e, 1) THEN "Correct" ELSE "Adjust your matrix/angles")
  ELSE "-"
MatchText == MatchTextOf(err)

(***************************************************************************)
(* INTERACTIVE ARM: the component (part_001:125-171, 305-374)              *)
(***************************************************************************)
\* bound of the model: input changes explored after a mount
MaxChanges == 2

\* slider positions the model moves to (each range input has min 40 /
\* max 260, resp. min -180 / max 180; the first of each pair is the default)
L1Values == {150, 40}
L2Values == {120, 260}
L3Values == {90, 40}
T1Values == {30, 0}
T2Values == {45, -90}
T3Values == {20, 180}

\* cell edits the model types: <<row, column, new text>>
CellEdits ==
  { <<1, 3, "l1*cos(th1)">>, <<1, 3, "l1*cosd(th1d)">>, <<1, 3, "2*l1*cos(th1)">>,
    <<1, 3, "cos(th1">>, <<2, 3, "foo">>, <<1, 1, "">>,
    <<3, 3, "2">>, <<3, 3, "0">>, <<3, 3, "1/0">>, <<3, 3, "1">> }

\* the values one render's effect closes over
Inputs(a1, a2, a3, d1, d2, d3) ==
  [l1 |-> a1, l2 |-> a2, l3 |-> a3, t1deg |-> d1, t2deg |-> d2, t3deg |-> d3]
CurrentInputs == Inputs(l1, l2, l3, t1deg, t2deg, t3deg)

NewTimerMutant(cells, in) == null
\* useEffect cleanup and body: clearTimeout(id), then
\* setTimeout(callback, 120) with the render's values
NewTimer(cells, in) == [cells |-> cells, in |-> in]

ArmDefaults ==
  /\ numArms = 2 /\ l1 = 150 /\ l2 = 120 /\ l3 = 90
  /\ t1deg = 30 /\ t2deg = 45 /\ t3deg = 20
  /\ rawCells = DEFAULT_MATRIX
  /\ msg = null /\ Tuser = null /\ normalizeW = FALSE

\* first render and its effect
ArmFirstRender ==
  /\ armMounted = TRUE
  /\ ArmDefaults
  /\ evalTimer = NewTimer(DEFAULT_MATRIX, Inputs(150, 120, 90, 30, 45, 20))
  /\ changes = 0

\* a slider moved: new state, effect cleanup (clearTimeout) and new timer
SliderMove(a1, a2, a3, d1, d2, d3) ==
  /\ armMounted
  /\ Inputs(a1, a2, a3, d1, d2, d3) # CurrentInputs
  /\ l1' = a1 /\ l2' = a2 /\ l3' = a3
  /\ t1deg' = d1 /\ t2deg' = d2 /\ t3deg' = d3
  /\ evalTimer' = NewTimer(rawCells, Inputs(a1, a2, a3, d1, d2, d3))
  /\ UNCHANGED <<armMounted, numArms, rawCells, msg, Tuser, normalizeW>>

SetL1 == \E v \in L1Values : SliderMove(v, l2, l3, t1deg, t2deg, t3deg)
SetT1deg == \E v \in T1Values : SliderMove(l1, l2, l3, v, t2deg, t3deg)
SetL2 == numArms >= 2 /\ \E v \in L2Values : SliderMove(l1, v, l3, t1deg, t2deg, t3deg)
SetT2deg == numArms >= 2 /\ \E v \in T2Values : SliderMove(l1, l2, l3, t1deg, v, t3deg)
SetL3 == numArms >= 3 /\ \E v \in L3Values : SliderMove(l1, l2, v, t1deg, t2deg, t3deg)
SetT3deg == numArms >= 3 /\ \E v \in T3Values : SliderMove(l1, l2, l3, t1deg, t2deg, v)

\* the "Number of links" select; numArms is no dependency of the effect
SetNumArms ==
  /\ armMounted
  /\ \E n \in 1..3 : n # numArms /\ numArms' = n
  /\ UNCHANGED <<armMounted, l1, l2, l3, t1deg, t2deg, t3deg, rawCells, msg, Tuser,
                 normalizeW, evalTimer>>

\* the "Normalize by w" checkbox; no dependency of the effect either
SetNormalizeW ==
  /\ armMounted
  /\ normalizeW' = ~normalizeW
  /\ UNCHANGED <<armMounted, numArms, l1, l2, l3, t1deg, t2deg, t3deg, rawCells, msg,
                 Tuser, evalTimer>>

\* typing in a matrix cell: setRawCells, cleanup, new timer
SetRawCells ==
  /\ armMounted
  /\ \E e \in CellEdits :
       /\ rawCells[e[1]][e[2]] # e[3]
       /\ rawCells' = [ri \in 1..3 |-> [cj \in 1..3 |->
                         IF ri = e[1] /\ cj = e[2] THEN e[3] ELSE rawCells[ri][cj]]]
       /\ evalTimer' = NewTimer(rawCells', CurrentInputs)
  /\ UNCHANGED <<armMounted, numArms, l1, l2, l3, t1deg, t2deg, t3deg, msg, Tuser,
                 normalizeW>>

\* setTuser(..); setMsg(..) with the outcome r
SetOutcome(r) == Tuser' = r[1] /\ msg' = r[2]

\* the timer callback runs, 120 ms after the last change
EvalTimerFires ==
  /\ armMounted
  /\ evalTimer # null
  /\ SetOutcome(EvaluateMatrix(evalTimer.cells, evalTimer.in))
  /\ evalTimer' = null
  /\ UNCHANGED <<armMounted, numArms, l1, l2, l3, t1deg, t2deg, t3deg, rawCells,
                 normalizeW, changes>>

UnmountArmMutant ==
  /\ armMounted
  /\ armMounted' = FALSE
  /\ numArms' = 2 /\ l1' = 150 /\ l2' = 120 /\ l3' = 90
  /\ t1deg' = 30 /\ t2deg' = 45 /\ t3deg' = 20
  /\ rawCells' = DEFAULT_MATRIX
  /\ msg' = null /\ Tuser' = null /\ normalizeW' = FALSE
  /\ changes' = 0
  /\ UNCHANGED evalTimer
\* leaving the page: effect cleanup clears the timer, the state is dropped
UnmountArm ==
  /\ armMounted
  /\ armMounted' = FALSE
  /\ evalTimer' = null
  /\ numArms' = 2 /\ l1' = 150 /\ l2' = 120 /\ l3' = 90
  /\ t1deg' = 30 /\ t2deg' = 45 /\ t3deg' = 20
  /\ rawCells' = DEFAULT_MATRIX
  /\ msg' = null /\ Tuser' = null /\ normalizeW' = FALSE
  /\ changes' = 0

\* opening the page again
MountArm ==
  /\ ~armMounted
  /\ armMounted' = TRUE
  /\ evalTimer' = NewTimer(rawCells, CurrentInputs)
  /\ UNCHANGED <<numArms, l1, l2, l3, t1deg, t2deg, t3deg, rawCells, msg, Tuser,
                 normalizeW, changes>>
(***************************************************************************)
(* WORDLE PATTERN (src/apps/WordlePattern.tsx).  A string is a sequence of *)
(* one-character strings ("" is << >>); the constant FALLBACK is kept as    *)
(* the sequence of pieces that FALLBACK.split(/\s+/) returns for it.       *)
(***************************************************************************)
LowerLetters == <<"a", "b", "c", "d", "e", "f", "g", "h", "i", "j", "k", "l", "m",
                  "n", "o", "p", "q", "r", "s", "t", "u", "v", "w", "x", "y", "z">>
UpperLetters == <<"A", "B", "C", "D", "E", "F", "G", "H", "I", "J", "K", "L", "M",
                  "N", "O", "P", "Q", "R", "S", "T", "U", "V", "W", "X", "Y", "Z">>

\* /[a-z]/ and String.prototype.toLowerCase on one character
IsLower(ch) == \E k \in 1..Len(LowerLetters) : LowerLetters[k] = ch
toLowerCase(ch) ==
  IF \E k \in 1..Len(UpperLetters) : UpperLetters[k] = ch
  THEN LowerLetters[CHOOSE k \in 1..Len(UpperLetters) : UpperLetters[k] = ch]
  ELSE ch

normalizeWord(w) == SelectSeq([k \in 1..Len(w) |-> toLowerCase(w[k])], IsLower)
isFiveLetter(w) == Len(w) = 5 /\ \A k \in 1..5 : IsLower(w[k])

\* guess[i]: "undefined" past the end of the string
CharAt(w, i) == IF i <= Len(w) THEN w[i] ELSE "undefined"
\* solCounts[ch] || 0
CountOf(solCounts, ch) == IF ch \in DOMAIN solCounts THEN solCounts[ch] ELSE 0
Put(solCounts, ch, n) ==
  [x \in DOMAIN solCounts \cup {ch} |-> IF x = ch THEN n ELSE solCounts[x]]

\* first loop of scoreWordle: greens, and the count of the other solution letters
RECURSIVE GreenLoop(_, _, _, _, _)
GreenLoop(guess, solution, i, res, solCounts) ==
  IF i > 5 THEN [res |-> res, solCounts |-> solCounts]
  ELSE IF CharAt(guess, i) = CharAt(solution, i)
       THEN GreenLoop(guess, solution, i + 1, [res EXCEPT ![i] = 3], solCounts)
       ELSE GreenLoop(guess, solution, i + 1, res,
                      Put(solCounts, CharAt(solution, i),
                          CountOf(solCounts, CharAt(solution, i)) + 1))

YellowStepMutant(solCounts, g) == solCounts
\* solCounts[g]--
YellowStep(solCounts, g) == Put(solCounts, g, solCounts[g] - 1)

\* second loop of scoreWordle: yellow while the letter's count lasts, else grey
RECURSIVE YellowLoop(_, _, _, _)
YellowLoop(guess, i, res, solCounts) ==
  IF i > 5 THEN res
  ELSE IF res[i] = 3 THEN YellowLoop(guess, i + 1, res, solCounts)
  ELSE IF CountOf(solCounts, CharAt(guess, i)) > 0
       THEN YellowLoop(guess, i + 1, [res EXCEPT ![i] = 2],
                       YellowStep(solCounts, CharAt(guess, i)))
       ELSE YellowLoop(guess, i + 1, [res EXCEPT ![i] = 1], solCounts)

YellowPass(guess, first) == YellowLoop(guess, 1, first.res, first.solCounts)
ScoreNormalized(guess, solution) ==
  YellowPass(guess, GreenLoop(guess, solution, 1, <<0, 0, 0, 0, 0>>, << >>))
scoreWordle(guess, solution) ==
  ScoreNormalized(normalizeWord(guess), normalizeWord(solution))

FALLBACK ==
  <<
     <<"c","i","g","a","r">>, <<"r","e","b","u","t">>, <<"s","i","s","s","y">>,
     <<"h","u","m","p","h">>, <<"a","w","a","k","e">>, <<"b","l","u","s","h">>,
     <<"f","o","c","a","l">>, <<"e","v","a","d","e">>, <<"s","e","r","v","e">>,
     <<"h","e","a","t","h">>, <<"d","w","a","r","f">>, <<"m","o","d","e","l">>,
     <<"k","a","r","m","a">>, <<"s","t","i","n","k">>, <<"g","r","a","d","e">>,
     <<"q","u","i","e","t">>, <<"b","e","n","c","h">>, <<"a","b","a","t","e">>,
     <<"f","e","i","g","n">>, <<"m","a","j","o","r">>, <<"d","e","a","t","h">>,
     <<"f","r","e","s","h">>, <<"c","r","u","s","t">>, <<"s","t","o","o","l">>,
     <<"c","o","l","o","n">>, <<"m","a","r","r","y">>, <<"r","e","a","c","t">>,
     <<"c","r","a","t","e">>, <<"t","r","a","c","e">>, <<"t","r","a","c","k">>,
     <<"c","r","a","n","e">>, <<"s","l","a","t","e">>, <<"l","e","a","s","t">>,
     <<"a","l","e","r","t">>, <<"l","a","t","e","r">>, <<"r","o","u","t","e">>,
     <<"a","c","t","o","r">>, <<"a","d","o","r","e">>, <<"c","a","n","o","n">>,
     <<"c","h","a","r","m">>, <<"c","h","e","a","p">>, <<"c","h","i","e","f">>,
     <<"c","h","i","l","d">>, <<"c","h","o","i","r">>, <<"c","l","o","n","e">>,
     <<"c","r","i","s","p">>, <<"c","r","o","w","n">>, <<"d","o","d","g","e">>,
     <<"f","e","n","c","e">>, <<"f","l","a","m","e">>, <<"g","h","o","s","t">>,
     <<"g","l","o","v","e">>, <<"g","r","a","n","d">>, <<"g","r","a","p","e">>,
     <<"g","r","e","e","n">>, <<"h","e","a","r","t">>, <<"h","o","n","e","y">>,
     <<"l","a","u","g","h">>, <<"l","i","g","h","t">>, <<"l","i","v","e","r">>,
     <<"l","u","n","a","r">>, <<"l","u","n","c","h">>, <<"n","i","g","h","t">>,
     <<"n","o","b","l","e">>, <<"n","u","r","s","e">>, <<"o","c","e","a","n">>,
     <<"p","i","a","n","o">>, <<"p","l","a","n","t">>, <<"p","o","i","n","t">>,
     <<"p","r","i","n","t">>, <<"p","r","o","u","d">>, <<"r","a","i","s","e">>,
     <<"r","e","a","c","h">>, <<"r","e","a","d","y">>, <<"r","i","g","h","t">>,
     <<"r","i","v","e","r">>, <<"r","o","b","o","t">>, <<"r","o","u","n","d">>,
     <<"s","h","a","d","e">>, <<"s","h","a","p","e">>, <<"s","h","a","r","p">>,
     <<"s","h","i","n","e">>, <<"s","h","o","r","t">>, <<"s","m","i","l","e">>,
     <<"s","n","a","k","e">>, <<"s","p","i","c","e">>, <<"s","p","i","n","e">>,
     <<"s","p","i","t","e">>, <<"s","p","o","r","t">>, <<"s","t","a","c","k">>,
     <<"s","t","a","i","r">>, <<"s","t","a","m","p">>, <<"s","t","a","n","d">>,
     <<"s","t","a","r","t">>, <<"s","t","a","t","e">>, <<"s","t","e","a","m">>,
     <<"s","t","e","e","l">>, <<"s","t","i","c","k">>, <<"s","t","o","n","e">>,
     <<"s","t","o","r","y">>, <<"s","t","r","a","w">>, <<"s","t","u","d","y">>,
     <<"s","u","g","a","r">>, <<"s","w","e","e","t">>, <<"s","w","i","n","g">>,
     <<"t","a","b","l","e">>, <<"t","a","s","t","e">>, <<"t","e","a","c","h">>,
     <<"t","h","a","n","k">>, <<"t","h","e","s","e">>, <<"t","h","i","n","g">>,
     <<"t","h","r","e","e">>, <<"t","i","g","e","r">>, <<"t","i","t","l","e">>,
     <<"t","o","d","a","y">>, <<"t","o","k","e","n">>, <<"t","o","t","a","l">>,
     <<"t","o","u","c","h">>, <<"t","r","a","c","e">>, <<"t","r","a","i","n">>,
     <<"t","r","u","t","h">>, <<"t","u","t","o","r">>, <<"v","i","v","i","d">>,
     <<"v","o","i","c","e">>, <<"w","a","t","c","h">>, <<"w","h","e","a","t">>,
     <<"w","h","e","r","e">>, <<"w","h","i","c","h">>, <<"w","h","i","t","e">>,
     <<"w","h","o","l","e">>, <<"w","o","m","a","n">>, <<"w","o","r","l","d">>,
     <<"w","o","r","r","y">>, <<"y","o","u","n","g">>, <<"y","o","u","t","h">>,
     <<"z","e","b","r","a">>
  >>

IsSpaceMutant(ch) == ch = "\n"
\* /\s/ on one character
IsSpace(ch) == ch \in {" ", "\t", "\n", "\r", "\f"}

\* txt.split(/\s+/): a run of white space ends a piece, so white space at
\* the start or the end of the text gives an empty piece there
RECURSIVE SplitFrom(_, _, _, _, _)
SplitFrom(txt, k, cur, acc, inRun) ==
  IF k > Len(txt) THEN Append(acc, cur)
  ELSE IF IsSpace(txt[k])
       THEN SplitFrom(txt, k + 1, << >>, IF inRun THEN acc ELSE Append(acc, cur), TRUE)
       ELSE SplitFrom(txt, k + 1, Append(cur, txt[k]), acc, FALSE)
split(txt) == SplitFrom(txt, 1, << >>, << >>, FALSE)

\* .map(normalizeWord).filter(isFiveLetter)
MapWords(pieces) == [k \in 1..Len(pieces) |-> normalizeWord(pieces[k])]
FiveLetterWords(pieces) == SelectSeq(MapWords(pieces), isFiveLetter)

\* Array.from(new Set(parsed)): the first occurrence of each word, in order
RECURSIVE UniqFrom(_, _, _)
UniqFrom(parsed, k, acc) ==
  IF k > Len(parsed) THEN acc
  ELSE IF \E j \in 1..Len(acc) : acc[j] = parsed[k]
       THEN UniqFrom(parsed, k + 1, acc)
       ELSE UniqFrom(parsed, k + 1, Append(acc, parsed[k]))
Uniq(parsed) == UniqFrom(parsed, 1, << >>)

\* a settled promise
Resolved(v) == [ok |-> TRUE, value |-> v]
Rejected(m) == [ok |-> FALSE, message |-> m]

\* the File objects the model uploads: a list with a repeated word, upper
\* case, punctuation, a short word and several kinds of white space
\* ("cigar\nColor\r\nwords  ga-mic\tabc\ncigar\n"); a text with no
\* five-letter word ("hello!!\nabcd\n12345"); a file that cannot be read
WordsFile ==
  [name |-> "words.txt",
   text |-> Resolved(<<"c","i","g","a","r","\n","C","o","l","o","r","\r","\n","w",
                      "o","r","d","s"," "," ","g","a","-","m","i","c","\t","a","b",
                      "c","\n","c","i","g","a","r","\n">>)]
NotesFile ==
  [name |-> "notes.txt",
   text |-> Resolved(<<"h","e","l","l","o","!","!","\n","a","b","c","d","\n","1","2",
                      "3","4","5">>)]
BrokenFile ==
  [name |-> "broken.txt", text |-> Rejected(<<"The file could not be read">>)]
Files == {WordsFile, NotesFile, BrokenFile}

\* `${base.replace(/\/$/, '')}/wordlists/wordle.txt` with BASE_URL '/'
ListUrl == "/wordlists/wordle.txt"

\* what fetch(url) settles with in the model: the list, a list of one word,
\* a text without words, a body that fails, index.html, a 404, no network
Response(ok, code, ct, body) ==
  [ok |-> ok, status |-> code, contentType |-> ct, url |-> ListUrl, body |-> body]
ListFetched ==
  Resolved(Response(TRUE, 200, "text/plain",
     Resolved(<<"g","a","m","i","c","\n","w","o","r","d","s","\n","c","o","l",
                      "o","r","\n","c","i","g","a","r","\n","t","h","r","e","e">>)))
NoNetwork == Rejected(<<"Failed to fetch">>)
FetchOutcomes ==
  { ListFetched,
    Resolved(Response(TRUE, 200, "text/plain", Resolved(<< >>))),
    Resolved(Response(TRUE, 200, "text/plain",
       Rejected(<<"network error">>))),
    Resolved(Response(TRUE, 200, "text/html; charset=utf-8",
       Resolved(<<"<","h","t","m","l",">">>))),
    Resolved(Response(FALSE, 404, "text/html", Resolved(<< >>))),
    NoNetwork }

\* ct.includes('text/html') for the content types above
IncludesHtml(ct) == ct \in {"text/html", "text/html; charset=utf-8"}

FallbackSuffix == ". Using fallback list."
\* fallback = FALLBACK.split(/\s+/).map(normalizeWord).filter(isFiveLetter)
FallbackWords == FiveLetterWords(FALLBACK)

\* the catch block of loadWords: e.message is the sequence of texts m
CatchLoadMutant(m) ==
  [words |-> << >>, error |-> <<"Error: ">> \o m \o <<FallbackSuffix>>,
   status |-> <<"Using fallback list (", ToString(0), ")">>]
CatchLoad(m) ==
  [words |-> FallbackWords,
   error |-> <<"Error: ">> \o m \o <<FallbackSuffix>>,
   status |-> <<"Using fallback list (", ToString(Len(FallbackWords)), ")">>]

\* the end of the try block, with the de-duplicated words
Loaded(file, uniq) ==
  IF Len(uniq) = 0 THEN CatchLoad(<<"No valid 5-letter words found in file.">>)
  ELSE [words |-> uniq, error |-> << >>,
        status |-> IF file # null
                   THEN <<"Loaded ", ToString(Len(uniq)), " words from ", file.name>>
                   ELSE <<"Loaded ", ToString(Len(uniq)), " words (built-in)">>]

\* the rest of loadWords once the text promise has settled
AfterText(file, settled) ==
  IF settled.ok THEN Loaded(file, Uniq(FiveLetterWords(split(settled.value))))
  ELSE CatchLoad(settled.message)

\* the checks on the response of fetch
ResponseError(res) ==
  IF ~res.ok
  THEN <<"HTTP error ", ToString(res.status), " (File not found at ", ListUrl, ")">>
  ELSE IF IncludesHtml(res.contentType)
  THEN <<"Got HTML instead of a word list from ", res.url,
         ". Ensure file exists under public/wordlists/wordle.txt and URL resolves to a .txt file.">>
  ELSE null

(***************************************************************************)
(* WORDLE PATTERN: the hook useWordlist and the component                  *)
(***************************************************************************)
VARIABLES
  wordleMounted,  \* the page is open
  \* ---- useWordlist (WordlePattern.tsx:190-193)
  words, loading, error, status,
  loads,          \* the calls of loadWords that wait at an await
  loadsStarted,   \* loads started by the user (bounds the model)
  \* ---- WordlePattern (WordlePattern.tsx:411-425)
  solution, grid, activeColor, results, impossibleRows, working,
  computeTimers,  \* the pending setTimeout callbacks of compute
  paints,         \* squares painted (bounds the model)
  \* ---- scoreWordle applied to one pair of words
  scoreIn, scoreOut

wordleVars == <<wordleMounted, words, loading, error, status, loads, loadsStarted,
                solution, grid, activeColor, results, impossibleRows, working,
                computeTimers, paints>>
scoreVars == <<scoreIn, scoreOut>>

\* bounds of the model: loads the user starts (Reload, file upload) after
\* the load on mount, and squares painted
MaxLoads == 1
MaxPaints == 1

\* what the user types into the solution input (maxLength 5)
SolutionInputs ==
  { <<"c","i","g","a","r">>, <<"C","o","l","o","r">>, <<"c","i","-","g","a">> }

\* squares the model paints when a Compute is in reach
PaintSquares == {<<1, 1>>, <<6, 5>>}

BlankGrid == [r \in 1..6 |-> [c \in 1..5 |-> 0]]
NoResults == [candidates |-> << >>, picks |-> << >>]

\* useState initial values of the hook and the component
WordleDefaults ==
  /\ words = << >> /\ loading = TRUE /\ error = << >>
  /\ status = <<"Loading word list...">>
  /\ solution = << >> /\ grid = BlankGrid /\ activeColor = 3
  /\ results = NoResults /\ impossibleRows = << >> /\ working = FALSE
  /\ loads = << >> /\ computeTimers = << >>
  /\ loadsStarted = 0 /\ paints = 0

\* the page is not open
WordleClosed == wordleMounted = FALSE /\ WordleDefaults

\* a call of loadWords up to its first await
BeginLoad(file) ==
  [file |-> file, at |-> IF file # null THEN "file.text" ELSE "fetch", res |-> null]
LoadingStatus(file) ==
  IF file # null THEN <<"Loading from ", file.name, "...">>
  ELSE <<"Loading built-in list...">>

\* first render and the mount effect's loadWords()
WordleFirstRender ==
  /\ wordleMounted = TRUE
  /\ words = << >> /\ loading = TRUE /\ error = << >>
  /\ status = LoadingStatus(null)
  /\ loads = <<BeginLoad(null)>>
  /\ solution = << >> /\ grid = BlankGrid /\ activeColor = 3
  /\ results = NoResults /\ impossibleRows = << >> /\ working = FALSE
  /\ computeTimers = << >>
  /\ loadsStarted = 0 /\ paints = 0

hookVars == <<words, loading, error, status>>
pageVars == <<solution, grid, activeColor, results, impossibleRows, working,
              computeTimers, paints>>

loadWords(file) ==
  /\ wordleMounted
  /\ loadsStarted < MaxLoads
  /\ loadsStarted' = loadsStarted + 1
  /\ loading' = TRUE
  /\ status' = LoadingStatus(file)
  /\ loads' = Append(loads, BeginLoad(file))
  /\ UNCHANGED <<wordleMounted, words, error, pageVars>>

\* the "Reload List" button
Reload == loadWords(null)
\* the file input's onChange with a chosen file
LoadFromFile == \E f \in Files : loadWords(f)

Without(seq, k) == SubSeq(seq, 1, k - 1) \o SubSeq(seq, k + 1, Len(seq))

FinishLoadMutant(k, o) ==
  /\ words' = o.words /\ error' = o.error /\ status' = o.status
  /\ loading' = FALSE
  /\ loads' = IF o.error # << >> THEN [loads EXCEPT ![k] = BeginLoad(@.file)]
              ELSE Without(loads, k)
  /\ UNCHANGED <<wordleMounted, loadsStarted, pageVars>>
\* a call of loadWords runs to its end with outcome o: the setters of the
\* try or catch block, then finally setLoading(false)
FinishLoad(k, o) ==
  /\ words' = o.words /\ error' = o.error /\ status' = o.status
  /\ loading' = FALSE
  /\ loads' = Without(loads, k)
  /\ UNCHANGED <<wordleMounted, loadsStarted, pageVars>>

\* await fetch(url) settles: rejected, a response that is refused, or on to
\* await res.text()
FetchSettlesWith(outcomes) ==
  /\ wordleMounted
  /\ \E k \in 1..Len(loads) : \E o \in outcomes :
       /\ loads[k].at = "fetch"
       /\ IF ~o.ok THEN FinishLoad(k, CatchLoad(o.message))
          ELSE IF ResponseError(o.value) # null
          THEN FinishLoad(k, CatchLoad(ResponseError(o.value)))
          ELSE /\ loads' = [loads EXCEPT ![k] = [@ EXCEPT !.at = "res.text", !.res = o.value]]
               /\ UNCHANGED <<wordleMounted, loadsStarted, hookVars, pageVars>>

FetchSettles == FetchSettlesWith(FetchOutcomes)
\* the fetch that finds the word list, or no network
FetchEnds == FetchSettlesWith({ListFetched, NoNetwork})

\* await res.text() settles
BodySettles ==
  /\ wordleMounted
  /\ \E k \in 1..Len(loads) :
       /\ loads[k].at = "res.text"
       /\ FinishLoad(k, AfterText(null, loads[k].res.body))

\* await file.text() settles
FileSettles ==
  /\ wordleMounted
  /\ \E k \in 1..Len(loads) :
       /\ loads[k].at = "file.text"
       /\ FinishLoad(k, AfterText(loads[k].file, loads[k].file.text))

\* useMemo values of the component
PatternsOf(g) == [r \in 1..6 |-> IF \A c \in 1..5 : g[r][c] = 0 THEN null ELSE g[r]]
patterns == PatternsOf(grid)
anyRowFilled == \E r \in 1..6 : patterns[r] # null
solutionValid == isFiveLetter(solution)
canComputeMutant == solutionValid /\ anyRowFilled
canCompute == solutionValid /\ Len(words) > 0 /\ anyRowFilled

\* setSolution(normalizeWord(e.target.value))
SetSolution ==
  /\ wordleMounted
  /\ \E raw \in SolutionInputs :
       /\ normalizeWord(raw) # solution
       /\ solution' = normalizeWord(raw)
  /\ UNCHANGED <<wordleMounted, hookVars, loads, loadsStarted, grid, activeColor,
                 results, impossibleRows, working, computeTimers, paints>>

\* a colour swatch is clicked
SetActiveColor ==
  /\ wordleMounted
  /\ \E v \in {3, 2, 1, 0} : v # activeColor /\ activeColor' = v
  /\ UNCHANGED <<wordleMounted, hookVars, loads, loadsStarted, solution, grid,
                 results, impossibleRows, working, computeTimers, paints>>

PaintedMutant(prev, r, c, v) == [prev EXCEPT ![r][c] = v + 1]
\* next = prev.map(x => x.slice()); next[r][c] = activeColor
Painted(prev, r, c, v) == [prev EXCEPT ![r][c] = v]

\* GridEditor.paint(r, c), rows and columns counted from 1
paint(r, c) ==
  /\ wordleMounted
  /\ paints < MaxPaints
  /\ paints' = paints + 1
  /\ grid' = Painted(grid, r, c, activeColor)
  /\ UNCHANGED <<wordleMounted, hookVars, loads, loadsStarted, solution, activeColor,
                 results, impossibleRows, working, computeTimers>>

PaintAny == \E r \in 1..6, c \in 1..5 : paint(r, c)
PaintSome == \E sq \in PaintSquares : paint(sq[1], sq[2])

\* resetResults as part of a handler
resetResults == results' = NoResults /\ impossibleRows' = << >>

\* the "Clear Results" button, disabled while there are no candidates
ClearResults ==
  /\ wordleMounted
  /\ Len(results.candidates) # 0
  /\ resetResults
  /\ UNCHANGED <<wordleMounted, hookVars, loads, loadsStarted, solution, grid,
                 activeColor, working, computeTimers, paints>>

resetAll ==
  /\ wordleMounted
  /\ grid' = BlankGrid
  /\ solution' = << >>
  /\ resetResults
  /\ UNCHANGED <<wordleMounted, hookVars, loads, loadsStarted, activeColor, working,
                 computeTimers, paints>>

DemoGrid ==
  << <<2, 2, 1, 2, 2>>, <<2, 2, 1, 2, 2>>, <<1, 1, 2, 1, 1>>,
     <<1, 1, 2, 1, 1>>, <<3, 1, 1, 1, 3>>, <<3, 3, 3, 3, 3>> >>

loadDemoPattern ==
  /\ wordleMounted
  /\ solution' = <<"c","i","g","a","r">>
  /\ grid' = DemoGrid
  /\ resetResults
  /\ UNCHANGED <<wordleMounted, hookVars, loads, loadsStarted, activeColor, working,
                 computeTimers, paints>>

\* the "Compute Guesses" button (disabled while working): the handler up
\* to setTimeout, whose callback keeps this render's values
compute ==
  /\ wordleMounted
  /\ ~working
  /\ canCompute
  /\ working' = TRUE
  /\ resetResults
  /\ computeTimers' = Append(computeTimers,
                        [S |-> normalizeWord(solution), patterns |-> patterns,
                         words |-> words])
  /\ UNCHANGED <<wordleMounted, hookVars, loads, loadsStarted, solution, grid,
                 activeColor, paints>>

MatchesMutant(w, S, pat) ==
  \A c \in 1..5 : pat[c] = 3 => scoreWordle(w, S)[c] = 3
\* s.every((score, i) => score === pat[i])
Matches(w, S, pat) == scoreWordle(w, S) = pat

\* one entry of candidates: words.filter(..), [] for a blank row
FilterWords(ws, S, pat) ==
  IF pat = null THEN << >> ELSE SelectSeq(ws, LAMBDA w : Matches(w, S, pat))

CandidatesOf(t) == [r \in 1..Len(t.patterns) |-> FilterWords(t.words, t.S, t.patterns[r])]

\* candidates.reduce(..): the 0-based indices of painted rows with no match
RECURSIVE ImpsFrom(_, _, _, _)
ImpsFrom(pats, candidates, r, acc) ==
  IF r > Len(candidates) THEN acc
  ELSE ImpsFrom(pats, candidates, r + 1,
                IF pats[r] # null /\ Len(candidates[r]) = 0
                THEN Append(acc, r - 1) ELSE acc)

PicksOfMutant(candidates) ==
  [r \in 1..Len(candidates) |->
     IF Len(candidates[r]) # 0 THEN candidates[r][Len(candidates[r])] ELSE << >>]
\* candidates.map(a => (a.length ? a[0] : ""))
PicksOf(candidates) ==
  [r \in 1..Len(candidates) |->
     IF Len(candidates[r]) # 0 THEN candidates[r][1] ELSE << >>]

SetComputedMutant(pats, candidates) ==
  /\ results' = [candidates |-> candidates, picks |-> PicksOf(candidates)]
  /\ impossibleRows' = ImpsFrom(candidates, candidates, 1, << >>)
\* setResults({ candidates, picks }); setImpossibleRows(imps)
SetComputed(pats, candidates) ==
  /\ results' = [candidates |-> candidates, picks |-> PicksOf(candidates)]
  /\ impossibleRows' = ImpsFrom(pats, candidates, 1, << >>)

\* the setTimeout(.., 10) callback of compute
ComputeTimerFires ==
  /\ wordleMounted
  /\ computeTimers # << >>
  /\ SetComputed(Head(computeTimers).patterns, CandidatesOf(Head(computeTimers)))
  /\ working' = FALSE
  /\ computeTimers' = Tail(computeTimers)
  /\ UNCHANGED <<wordleMounted, hookVars, loads, loadsStarted, solution, grid,
                 activeColor, paints>>

\* the two boxes of the Results card, rendered when there are candidates
ImpossibleRowsBox == Len(results.candidates) # 0 /\ Len(impossibleRows) > 0
SuggestedSequenceBox ==
  Len(results.candidates) # 0 /\ Len(impossibleRows) = 0 /\ anyRowFilled

\* the characters U+00B7 and U+2014 of the suggested sequence
MiddleDot == "\\u00B7"
EmDash == "\\u2014"

\* Array.prototype.join
RECURSIVE Join(_, _)
Join(items, sep) ==
  IF Len(items) = 0 THEN << >>
  ELSE IF Len(items) = 1 THEN items[1]
  ELSE items[1] \o sep \o Join(Tail(items), sep)

\* results.picks.map((w, i) => (patterns[i] ? (w || "\u2014") : null))
\*   .filter(Boolean).join(" \u00B7 "); null and "" are both falsy
SequenceOf(picks, pats) ==
  Join(SelectSeq([k \in 1..Len(picks) |->
                    IF pats[k] # null
                    THEN (IF Len(picks[k]) # 0 THEN picks[k] ELSE <<EmDash>>)
                    ELSE null],
                 LAMBDA e : Len(e) # 0),
       <<" ", MiddleDot, " ">>)
sequence == SequenceOf(results.picks, patterns)

\* scoreWordle applied to a pair of five-letter words over the first
\* MaxLetters letters
MaxLetters == 2
WordsOver(n) == [1..5 -> {LowerLetters[k] : k \in 1..n}]
ScoreIdle == scoreIn = null /\ scoreOut = null
ApplyScore ==
  /\ scoreIn # null /\ scoreOut = null
  /\ scoreOut' = scoreWordle(scoreIn[1], scoreIn[2])
  /\ UNCHANGED scoreIn

(***************************************************************************)
(* RTT MANIPULATOR (src/pages/School.tsx:289-350, 466-474, 517, 551, 580)  *)
(***************************************************************************)
VARIABLES
  rttMounted,     \* the page is open
  theme, i, playing,
  rafId,          \* rafId.current
  frameRequests,  \* handles of the outstanding animation-frame requests
  sinceLastTs     \* the time since lastTs.current in ms, up to GapCap

rttVars == <<rttMounted, theme, i, playing, rafId, frameRequests, sinceLastTs>>

l0 == 1
N == 601
tmin == 0
tmax == 3

\* the numbers of the trajectory are rational or products with a cosine or
\* sine; a rational is a fraction [n, d] in lowest terms, d > 0
FracOver(n, d, g) == [n |-> n \div g, d |-> d \div g]
Frac(n, d) == IF d < 0 THEN FracOver(-n, -d, Gcd(n, d)) ELSE FracOver(n, d, Gcd(n, d))
Whole(n) == [n |-> n, d |-> 1]
FracAdd(a, b) == Frac(a.n * b.d + b.n * a.d, a.d * b.d)
FracSub(a, b) == Frac(a.n * b.d - b.n * a.d, a.d * b.d)
FracMul(a, b) == Frac(a.n * b.n, a.d * b.d)

\* 4 t - pi/2 as a pair: the rational part 4 t and the multiple of pi
q1(t) == [rat |-> FracMul(Whole(4), t), pi |-> Frac(-1, 2)]
q2(t) == FracSub(Whole(6), FracMul(Whole(2), t))
q3(t) == FracAdd(FracMul(Whole(3), t), Whole(1))

\* Math.cos / Math.sin of such an angle and a product with it, kept as terms
CosOf(angle) == [fn |-> "cos", of |-> angle]
SinOf(angle) == [fn |-> "sin", of |-> angle]
Times(a, b) == [op |-> "*", left |-> a, right |-> b]

\* the precomputed trajectory, indexed 0..N-1 as in the code
T  == [k \in 0..(N - 1) |->
         FracAdd(Whole(tmin), FracMul(Whole(tmax - tmin), Frac(k, N - 1)))]
th == [k \in 0..(N - 1) |-> q1(T[k])]
r  == [k \in 0..(N - 1) |-> q3(T[k])]
z  == [k \in 0..(N - 1) |-> FracAdd(Whole(l0), q2(T[k]))]
x  == [k \in 0..(N - 1) |-> Times(r[k], CosOf(th[k]))]
y  == [k \in 0..(N - 1) |-> Times(r[k], SinOf(th[k]))]

\* const t = T[i]
t == T[i]

\* -s, kept as a term
NegOf(a) == [op |-> "neg", of |-> a]

NumericTOfMutant(tt) ==
  << <<CosOf(q1(tt)), NegOf(SinOf(q1(tt))), Whole(0), Times(q3(tt), SinOf(q1(tt)))>>,
     <<SinOf(q1(tt)), CosOf(q1(tt)), Whole(0), Times(q3(tt), CosOf(q1(tt)))>>,
     <<Whole(0), Whole(0), Whole(1), FracAdd(Whole(l0), q2(tt))>>,
     <<Whole(0), Whole(0), Whole(0), Whole(1)>> >>
\* the closed-form matrix of the math panel: c = cos q1(t), s = sin q1(t),
\* r = q3(t), zz = l0 + q2(t)
NumericTOf(tt) ==
  << <<CosOf(q1(tt)), NegOf(SinOf(q1(tt))), Whole(0), Times(q3(tt), CosOf(q1(tt)))>>,
     <<SinOf(q1(tt)), CosOf(q1(tt)), Whole(0), Times(q3(tt), SinOf(q1(tt)))>>,
     <<Whole(0), Whole(0), Whole(1), FracAdd(Whole(l0), q2(tt))>>,
     <<Whole(0), Whole(0), Whole(0), Whole(1)>> >>
numericT == NumericTOf(t)

\* `${v}`: the decimal text of the number v; a piece of literal text
NumberText(v) == [number |-> v]
Text(s) == [text |-> s]

RowTextMutant(k) ==
  <<NumberText(T[k]), Text(","), NumberText(x[k]), Text(","),
    NumberText(x[k]), Text(","), NumberText(z[k])>>
\* `${tt},${x[k]},${y[k]},${z[k]}`
RowText(k) ==
  <<NumberText(T[k]), Text(","), NumberText(x[k]), Text(","),
    NumberText(y[k]), Text(","), NumberText(z[k])>>

\* T.map(..).join("\n"), for the rows lo..hi
RECURSIVE JoinRows(_, _)
JoinRows(lo, hi) ==
  IF lo = hi THEN RowText(lo)
  ELSE JoinRows(lo, (lo + hi) \div 2) \o <<Text("\n")>>
         \o JoinRows((lo + hi) \div 2 + 1, hi)

\* the content of the Blob behind csvHref: header + body
csvText == <<Text("t,x,y,z\n")>> \o JoinRows(0, N - 1)

\* slider positions the model drags to, themes, and the time between two
\* frames in ms
SliderStops == {0, 300, N - 1}
ThemeKeys == {"light", "dark", "contrast"}
FrameGaps == {16, 50}
\* ts - lastTs.current is kept up to this value: the code only asks > 40
GapCap == 41
\* handles of requestAnimationFrame; a handle is reused once nothing holds
\* it.  NoHandle stands for the null of useRef(null): not a handle, falsy
Handles == 1..3
NoHandle == 0

RTTDefaults ==
  /\ theme = "dark" /\ i = 0 /\ playing = FALSE
  /\ rafId = NoHandle /\ frameRequests = {}
RTTClosed == rttMounted = FALSE /\ RTTDefaults /\ sinceLastTs = GapCap

\* first render: lastTs.current = 0, and the page's clock is at 0 or later
RTTFirstRender ==
  /\ rttMounted = TRUE
  /\ RTTDefaults
  /\ sinceLastTs \in {0, GapCap}

FreshHandle == CHOOSE h \in Handles : h \notin frameRequests /\ h # rafId

\* cleanup of the effect: if (rafId.current) cancelAnimationFrame(rafId.current)
CancelledMutant(requests) == requests
Cancelled(requests) == IF rafId # NoHandle THEN requests \ {rafId} ELSE requests

\* rafId.current = requestAnimationFrame(step)
Request(requests) ==
  /\ frameRequests' = requests \cup {FreshHandle}
  /\ rafId' = FreshHandle

\* the Play / Pause button: setPlaying(p => !p), then the effect on
\* [playing]: the cleanup of a playing render, the body of a playing one
TogglePlaying ==
  /\ rttMounted
  /\ playing' = ~playing
  /\ IF playing
     THEN frameRequests' = Cancelled(frameRequests) /\ rafId' = rafId
     ELSE Request(frameRequests)
  /\ UNCHANGED <<rttMounted, theme, i, sinceLastTs>>

Capped(gap) == IF gap > GapCap THEN GapCap ELSE gap

\* the browser runs the callback step(ts) of an outstanding request
Step ==
  /\ \E h \in frameRequests : \E gap \in FrameGaps :
       /\ IF sinceLastTs + gap > 40
          THEN /\ i' = IF rttMounted THEN (i + 1) % N ELSE i
               /\ sinceLastTs' = 0
          ELSE i' = i /\ sinceLastTs' = Capped(sinceLastTs + gap)
       /\ Request(frameRequests \ {h})
  /\ UNCHANGED <<rttMounted, theme, playing>>

\* the range input: setI(parseInt(e.target.value, 10))
SliderSetI ==
  /\ rttMounted
  /\ \E v \in SliderStops : v # i /\ i' = v
  /\ UNCHANGED <<rttMounted, theme, playing, rafId, frameRequests, sinceLastTs>>

SetTheme ==
  /\ rttMounted
  /\ \E k \in ThemeKeys : k # theme /\ theme' = k
  /\ UNCHANGED <<rttMounted, i, playing, rafId, frameRequests, sinceLastTs>>

\* leaving the page: the cleanup of a playing render runs, the state goes
UnmountRTT ==
  /\ rttMounted
  /\ rttMounted' = FALSE
  /\ frameRequests' = IF playing THEN Cancelled(frameRequests) ELSE frameRequests
  /\ theme' = "dark" /\ i' = 0 /\ playing' = FALSE /\ rafId' = NoHandle
  /\ sinceLastTs' = GapCap

MountRTT ==
  /\ ~rttMounted
  /\ rttMounted' = TRUE
  /\ sinceLastTs' \in {0, GapCap}
  /\ UNCHANGED <<theme, i, playing, rafId, frameRequests>>

(***************************************************************************)
(* SPECIFICATIONS.  One page is open at a time; the others keep the state  *)
(* of a closed page.                                                       *)
(***************************************************************************)
vars == <<armVars, wordleVars, scoreVars, rttVars>>

Counted(A) == changes < MaxChanges /\ A /\ changes' = changes + 1
OnArm(A) == A /\ UNCHANGED <<wordleVars, scoreVars, rttVars>>
OnWordle(A) == A /\ UNCHANGED <<armVars, scoreVars, rttVars>>
OnRTT(A) == A /\ UNCHANGED <<armVars, wordleVars, scoreVars>>

ArmClosed ==
  /\ armMounted = FALSE /\ ArmDefaults /\ evalTimer = null /\ changes = 0

\* the arm page: a bounded number of changes of any input
InitArm == ArmFirstRender /\ WordleClosed /\ ScoreIdle /\ RTTClosed
NextArm ==
  \/ OnArm(Counted(SetL1)) \/ OnArm(Counted(SetT1deg))
  \/ OnArm(Counted(SetL2)) \/ OnArm(Counted(SetT2deg))
  \/ OnArm(Counted(SetL3)) \/ OnArm(Counted(SetT3deg))
  \/ OnArm(Counted(SetNumArms))
  \/ OnArm(Counted(SetNormalizeW))
  \/ OnArm(Counted(SetRawCells))
  \/ OnArm(EvalTimerFires)
  \/ OnArm(UnmountArm)
  \/ OnArm(MountArm)
SpecArm == InitArm /\ [][NextArm]_vars
\* a pending setTimeout callback is run by the event loop: the step of
\* EvalTimerFires, the only one of NextArm that keeps the page open and
\* leaves no timer pending
TimerElapses ==
  armMounted /\ evalTimer # null /\ armMounted' = TRUE /\ evalTimer' = null
SpecArmFair == SpecArm /\ WF_evalTimer(TimerElapses)

\* the arm page: every slider setting with the matrix left as it is, no
\* bound on the number of slider moves
NextArmSliders ==
  \/ OnArm(SetL1 /\ UNCHANGED changes) \/ OnArm(SetT1deg /\ UNCHANGED changes)
  \/ OnArm(SetL2 /\ UNCHANGED changes) \/ OnArm(SetT2deg /\ UNCHANGED changes)
  \/ OnArm(SetL3 /\ UNCHANGED changes) \/ OnArm(SetT3deg /\ UNCHANGED changes)
  \/ OnArm(SetNumArms /\ UNCHANGED changes)
  \/ OnArm(EvalTimerFires)
SpecArmSliders == InitArm /\ [][NextArmSliders]_vars

\* the arm page: every slider setting and number of links, before any
\* evaluation of the matrix
NextArmChain ==
  \/ OnArm(SetL1 /\ UNCHANGED changes) \/ OnArm(SetT1deg /\ UNCHANGED changes)
  \/ OnArm(SetL2 /\ UNCHANGED changes) \/ OnArm(SetT2deg /\ UNCHANGED changes)
  \/ OnArm(SetL3 /\ UNCHANGED changes) \/ OnArm(SetT3deg /\ UNCHANGED changes)
  \/ OnArm(SetNumArms /\ UNCHANGED changes)
SpecArmChain == InitArm /\ [][NextArmChain]_vars

\* scoreWordle on every pair of words over MaxLetters letters
InitScore ==
  /\ ArmClosed /\ WordleClosed /\ RTTClosed
  /\ scoreIn \in WordsOver(MaxLetters) \X WordsOver(MaxLetters)
  /\ scoreOut = null
NextScore == ApplyScore /\ UNCHANGED <<armVars, wordleVars, rttVars>>
SpecScore == InitScore /\ [][NextScore]_vars

\* the Wordle page: the word list arrives, then the inputs and Compute
InitWordle == WordleFirstRender /\ ArmClosed /\ ScoreIdle /\ RTTClosed
NextWordle ==
  \/ OnWordle(FetchEnds) \/ OnWordle(BodySettles)
  \/ OnWordle(SetSolution) \/ OnWordle(PaintSome)
  \/ OnWordle(ClearResults) \/ OnWordle(resetAll) \/ OnWordle(loadDemoPattern)
  \/ OnWordle(compute) \/ OnWordle(ComputeTimerFires)
SpecWordle == InitWordle /\ [][NextWordle]_vars

\* the Wordle page: the loads of the word list, however they end
NextWordlist ==
  \/ OnWordle(Reload) \/ OnWordle(LoadFromFile)
  \/ OnWordle(FetchSettles) \/ OnWordle(BodySettles) \/ OnWordle(FileSettles)
SpecWordlist == InitWordle /\ [][NextWordlist]_vars

\* the Wordle page: the grid editor on every square
NextGrid ==
  \/ OnWordle(SetActiveColor) \/ OnWordle(PaintAny)
  \/ OnWordle(resetAll) \/ OnWordle(loadDemoPattern)
SpecGrid == InitWordle /\ [][NextGrid]_vars

\* the RTT page
InitRTT == RTTFirstRender /\ ArmClosed /\ WordleClosed /\ ScoreIdle
NextRTT ==
  \/ OnRTT(TogglePlaying) \/ OnRTT(Step) \/ OnRTT(SliderSetI)
  \/ OnRTT(SetTheme) \/ OnRTT(UnmountRTT) \/ OnRTT(MountRTT)
SpecRTT == InitRTT /\ [][NextRTT]_vars
(***************************************************************************)
(* CLAIMS about InteractiveArm                                             *)
(***************************************************************************)
\* cumulative joint angle theta_1 + .. + theta_i, in degrees
RECURSIVE CumDeg(_)
CumDeg(k) == IF k = 0 THEN 0 ELSE CumDeg(k - 1) + <<t1deg, t2deg, t3deg>>[k]
LinkLen(k) == <<l1, l2, l3>>[k]
R_(k)  == Rot2D(toRad(<<t1deg, t2deg, t3deg>>[k]))
Tr_(k) == Tran2D(NInt(LinkLen(k)), Zero)

\* R(th1).Tr(l1,0). ... .R(thn).Tr(ln,0), multiplied from left to right
RECURSIVE ChainProduct(_)
ChainProduct(n) ==
  IF n = 0 THEN matIdentity
  ELSE matMul(matMul(ChainProduct(n - 1), R_(n)), Tr_(n))

RECURSIVE ClosedX(_)
ClosedX(n) ==
  IF n = 0 THEN Zero
  ELSE Add(ClosedX(n - 1), Mul(NInt(LinkLen(n)), MathCos(toRad(CumDeg(n)))))
RECURSIVE ClosedY(_)
ClosedY(n) ==
  IF n = 0 THEN Zero
  ELSE Add(ClosedY(n - 1), Mul(NInt(LinkLen(n)), MathSin(toRad(CumDeg(n)))))

\* C1: for every numArms in 1..3 and every slider setting, Tfk is the
\* left-to-right product R(th1).Tr(l1,0)...R(thn).Tr(ln,0) of the first
\* n = numArms joints, endFK = Tfk.[0,0,1]^T is
\* (SUM l_i cos(th1+..+thi), SUM l_i sin(th1+..+thi)), and one link of
\* length L at angle 0 ends at (L, 0).
C1_ForwardKinematics ==
  armMounted =>
    /\ numArms \in 1..3
    /\ Tfk = ChainProduct(numArms)
    /\ endFK = [x |-> ClosedX(numArms), y |-> ClosedY(numArms)]
    /\ (numArms = 1 /\ t1deg = 0 => endFK = [x |-> NInt(l1), y |-> Zero])

C1_Witness ==
  armMounted /\ numArms = 3 /\ t1deg = 30 /\ t2deg = -90 /\ t3deg = 180
             /\ l1 = 40 /\ l2 = 260 /\ l3 = 40

\* some cell of the matrix the timer closed over does not evaluate to a
\* finite number
SomeCellFails(timer) ==
  \E row \in 1..3, col \in 1..3 :
     Evaluate(Parse(timer.cells[row][col]), ScopeOf(timer.in)).t # "num"
CellValue(timer, row, col) ==
  Evaluate(Parse(timer.cells[row][col]), ScopeOf(timer.in)).v

\* C2: when an evaluation of the user matrix runs and a cell fails to parse,
\* throws or yields a non-number or non-finite value, Tuser becomes null and
\* msg a text starting with "Matrix parse/eval error: ", and the sliders and
\* numArms (which determine the FK result) are unchanged; when all nine cells evaluate to
\* finite numbers Tuser is the evaluated matrix and msg is null.  So after
\* an evaluation exactly one of Tuser and msg is non-null.
C2_EvaluationCaught ==
  [][OnArm(EvalTimerFires) =>
      /\ SomeCellFails(evalTimer) =>
           Tuser' = null /\ msg' # null /\ msg'[1] = "Matrix parse/eval error: "
      /\ ~SomeCellFails(evalTimer) =>
           /\ msg' = null
           /\ Tuser' = [row \in 1..3 |-> [col \in 1..3 |-> CellValue(evalTimer, row, col)]]
      /\ (Tuser' = null) # (msg' = null)
      /\ armMounted'
      /\ UNCHANGED <<numArms, l1, l2, l3, t1deg, t2deg, t3deg>>]_vars

C2_Witness ==
  armMounted /\ evalTimer = null /\ Tuser = null /\ msg # null
             /\ rawCells[3][3] = "1/0"

\* coordinate k of the user point, read off the third column of M
UserCoord(M, k) == IF normalizeW /\ M[3][3] # Zero
                   THEN DivRat(M[k][3], M[3][3]) ELSE M[k][3]
SquareOf(a) == Mul(a, a)

\* e is null exactly when M is null, else the (squared) distance of the
\* user point of M from fk; the verdict text is Correct iff e < 1
ErrorAndVerdict(e, M, fk, verdict) ==
  /\ (e = null) <=> (M = null)
  /\ M # null =>
       e = Add(SquareOf(Sub(UserCoord(M, 1), fk.x)),
               SquareOf(Sub(UserCoord(M, 2), fk.y)))
  /\ (verdict = "Correct") <=> (e # null /\ LessThan(e, 1))
\* with default cells and two links (and pending = FALSE) e is 0, Correct
DefaultCase(e, pending) ==
  rawCells = DEFAULT_MATRIX /\ numArms = 2 /\ ~pending
    => e = Zero /\ MatchTextOf(e) = "Correct"

C4_Original ==
  armMounted /\ (Tuser # null \/ msg # null) =>
    <<Tuser, msg>> = EvaluateMatrix(rawCells, CurrentInputs)

\* C4 (amended): the evaluation is debounced, so Tuser (and msg)
\* corresponds to the current inputs whenever no evaluation timer is
\* pending; while a timer is pending, Tuser is the result for the inputs of
\* the last evaluation that ran (or null before the first one).
C4_Amended ==
  armMounted /\ evalTimer = null =>
    <<Tuser, msg>> = EvaluateMatrix(rawCells, CurrentInputs)

C4_Witness ==
  armMounted /\ evalTimer = null /\ Tuser # null /\ t1deg = 0 /\ l1 = 40

(***************************************************************************)
(* CLAIMS about WordlePattern                                              *)
(***************************************************************************)
CountIn(w, ch) == Cardinality({p \in 1..5 : w[p] = ch})
Least(a, b) == IF a < b THEN a ELSE b
\* positions of g that are not green against s
Off(g, s) == {p \in 1..5 : g[p] # s[p]}

\* res is the Wordle score of guess g against solution s
ExactScore(g, s, res) ==
  /\ \A p \in 1..5 : res[p] \in {1, 2, 3}
  /\ \A p \in 1..5 : res[p] = 3 <=> g[p] = s[p]
  /\ \A p \in Off(g, s) :
       res[p] = 2 <=>
         Cardinality({q \in Off(g, s) : q < p /\ g[q] = g[p]})
           < Cardinality({q \in Off(g, s) : s[q] = g[p]})
  /\ \A p \in 1..5 :
       Cardinality({q \in 1..5 : g[q] = g[p] /\ res[q] \in {2, 3}})
         = Least(CountIn(g, g[p]), CountIn(s, g[p]))

\* C5: for any five-letter guess and solution scoreWordle is the exact
\* Wordle score: 3 exactly where the letters agree; elsewhere, from left to
\* right, 2 while the letter still has an unmatched occurrence in the
\* solution (not counting green positions), else 1.  So for each letter the
\* greens plus yellows of the guess are min(count in guess, count in
\* solution).
C5_ExactScoring ==
  scoreOut # null => ExactScore(scoreIn[1], scoreIn[2], scoreOut)

C5_Witness ==
  /\ scoreIn = << <<"a", "a", "a", "b", "b">>, <<"b", "a", "b", "a", "b">> >>
  /\ scoreOut = <<2, 3, 1, 2, 3>>

\* the indices of the words of ws whose score against S is pat
Hits(ws, S, pat) == {j \in 1..Len(ws) : scoreWordle(ws[j], S) = pat}
NthOf(hits, k) == CHOOSE j \in hits : Cardinality({h \in hits : h < j}) = k - 1
\* out lists exactly the hits, in the order of ws
ListsHits(out, ws, hits) ==
  /\ Len(out) = Cardinality(hits)
  /\ \A k \in 1..Len(out) : out[k] = ws[NthOf(hits, k)]
BlankRow(g, row) == \A col \in 1..5 : g[row][col] = 0

\* cands is the result stated for the grid g, solution S and word list ws
CandidatesAsStated(cands, g, S, ws) ==
  /\ Len(cands) = 6
  /\ \A row \in 1..6 :
       IF BlankRow(g, row) THEN cands[row] = << >>
       ELSE ListsHits(cands[row], ws, Hits(ws, S, g[row]))

\* the grid rows a pending Compute works on
RowsOf(timer) ==
  [row \in 1..6 |-> IF timer.patterns[row] = null THEN <<0, 0, 0, 0, 0>>
                    ELSE timer.patterns[row]]

\* C6: when Compute runs with a valid solution and at least one non-blank
\* row, candidates has exactly six entries: for every row that is not blank
\* the words of the word list, in word-list order, whose scoreWordle against
\* the solution equals the row's pattern in all five positions, and the
\* empty list for every blank row (all five cells 0).  The solution, grid
\* and word list are those of the click on Compute.
C6_Candidates ==
  [][/\ OnWordle(compute) =>
          /\ isFiveLetter(solution) /\ \E row \in 1..6 : ~BlankRow(grid, row)
          /\ computeTimers' = <<[S |-> solution, patterns |-> PatternsOf(grid),
                                 words |-> words]>>
          /\ RowsOf(computeTimers'[1]) = grid
     /\ OnWordle(ComputeTimerFires) =>
          CandidatesAsStated(results'.candidates, RowsOf(Head(computeTimers)),
                             Head(computeTimers).S, Head(computeTimers).words)
    ]_vars

C6_Witness ==
  /\ wordleMounted /\ grid = DemoGrid /\ ~working
  /\ Len(results.candidates) = 6
  /\ results.candidates[3] = << <<"w","o","r","d","s">>, <<"t","h","r","e","e">> >>
  /\ results.candidates[6] = << <<"c","i","g","a","r">> >>

\* a settled text promise gives no word list: rejected, or no valid word
NoWords(settled) ==
  \/ ~settled.ok
  \/ ~\E k \in 1..Len(split(settled.value)) :
        isFiveLetter(normalizeWord(split(settled.value)[k]))

\* this step ends load k in failure: it stops at the fetch, or its text
\* cannot be read or holds no five-letter word
LoadFails(k) ==
  /\ k \in 1..Len(loads)
  /\ loads' = Without(loads, k)
  /\ \/ loads[k].at = "fetch"
     \/ loads[k].at = "res.text" /\ NoWords(loads[k].res.body)
     \/ loads[k].at = "file.text" /\ NoWords(loads[k].file.text)

C8_GridShape ==
  wordleMounted =>
    /\ DOMAIN grid = 1..6
    /\ \A row \in 1..6 :
         /\ DOMAIN grid[row] = 1..5
         /\ \A col \in 1..5 : grid[row][col] \in {0, 1, 2, 3}
    /\ activeColor \in {0, 1, 2, 3}

C8_Witness ==
  /\ wordleMounted /\ paints = 1 /\ activeColor = 0
  /\ grid = [DemoGrid EXCEPT ![6][5] = 0]

(***************************************************************************)
(* CLAIMS about RTTManipulator                                             *)
(***************************************************************************)
\* requests outstanding: one, held by rafId, while playing; none otherwise
OneWhilePlaying ==
  /\ rttMounted /\ playing => frameRequests = {rafId} /\ rafId \in Handles
  /\ ~(rttMounted /\ playing) => frameRequests = {}

\* C9: while playing is true exactly one animation-frame request is
\* outstanding, and each frame callback requests the next one; when playing
\* becomes false or the component unmounts the request is cancelled, so no
\* frame callback runs and the frame index does not change until the user
\* presses Play or moves the slider.
C9_Frames ==
  [][/\ OneWhilePlaying /\ OneWhilePlaying'
     /\ OnRTT(Step) => playing /\ Cardinality(frameRequests') = 1
     /\ (rttMounted /\ rttMounted' /\ ~playing /\ ~playing') =>
          /\ ~OnRTT(Step)
          /\ i' # i => OnRTT(SliderSetI)
    ]_vars

C9_Witness ==
  /\ rttMounted /\ ~playing /\ i = 2 /\ rafId # NoHandle /\ frameRequests = {}

\* the token at place p of the stated CSV: the header, then for each row k
\* its four numbers with commas between, and a newline before the next row
StatedToken(p) ==
  IF p = 1 THEN Text("t,x,y,z\n")
  ELSE IF (p - 2) % 8 = 0 THEN NumberText(T[(p - 2) \div 8])
  ELSE IF (p - 2) % 8 = 2 THEN NumberText(x[(p - 2) \div 8])
  ELSE IF (p - 2) % 8 = 4 THEN NumberText(y[(p - 2) \div 8])
  ELSE IF (p - 2) % 8 = 6 THEN NumberText(z[(p - 2) \div 8])
  ELSE IF (p - 2) % 8 = 7 THEN Text("\n")
  ELSE Text(",")
\* csv is the header and then N = 601 rows, one per line
IsStatedCsv(csv) ==
  /\ Len(csv) = 8 * N
  /\ \A p \in 1..(8 * N) : csv[p] = StatedToken(p)
  /\ N = 601
  /\ Cardinality({p \in 1..Len(csv) : csv[p] = Text("\n")}) = N - 1
CsvAsStated == IsStatedCsv(csvText)

\* C10: the CSV is the header line "t,x,y,z" followed by exactly N = 601
\* data rows, row k being T[k],x[k],y[k],z[k] of the precomputed
\* trajectory, whatever the frame index, the playing state and the theme.
C10_Csv == rttMounted => CsvAsStated

C10_Witness == rttMounted /\ playing /\ i = 300 /\ theme = "light"

(***************************************************************************)
(* CLAIMS about the word list and Compute of WordlePattern                 *)
(***************************************************************************)
\* the calls of loadWords that wait at their first await: the fetch or the
\* read of the file
AtFirstAwait(calls) ==
  {k \in 1..Len(calls) : calls[k].at \in {"fetch", "file.text"}}
UserStartsLoad == OnWordle(Reload) \/ OnWordle(LoadFromFile)
LoadSettles ==
  OnWordle(FetchSettles) \/ OnWordle(BodySettles) \/ OnWordle(FileSettles)

\* C11: no retries.  After the load of the mount, a call of loadWords is
\* added only by the Reload button or by choosing a file, one call per
\* click; a settling await never starts a fetch or a file read, so every
\* call makes at most one; and a step that ends a load in an error leaves
\* one call fewer in flight, it starts none.
C11_NoRetries ==
  [][/\ Len(loads') > Len(loads) =>
          /\ UserStartsLoad
          /\ Len(loads') = Len(loads) + 1
          /\ loads'[Len(loads')].at \in {"fetch", "file.text"}
     /\ LoadSettles =>
          /\ Len(loads') <= Len(loads)
          /\ Cardinality(AtFirstAwait(loads')) <= Cardinality(AtFirstAwait(loads))
          /\ (Len(error') # 0 /\ loading /\ ~loading') => Len(loads') = Len(loads) - 1
    ]_vars

C11_Witness ==
  /\ wordleMounted /\ loads = << >> /\ ~loading /\ loadsStarted = 1
  /\ error = <<"Error: ", "Failed to fetch", ". Using fallback list.">>

\* the three conditions of Compute, on the state: five letters a-z, a word
\* list that is not empty, a square painted in some row
FiveLettersAZ(word) ==
  /\ Len(word) = 5
  /\ \A k \in 1..Len(word) : word[k] \in {LowerLetters[n] : n \in 1..26}
SomeRowPainted(g) == \E row \in 1..6 : \E col \in 1..5 : g[row][col] # 0
ComputeAllowed == FiveLettersAZ(solution) /\ Len(words) # 0 /\ SomeRowPainted(grid)

\* C12: Compute has an effect (working set, results cleared by it, a timer
\* started) only from a state where the solution is exactly five letters
\* a-z, the word list is not empty and some grid row has a non-empty cell;
\* otherwise results, impossibleRows, working and the timers stay as they
\* are.
C12_ComputeGuard ==
  [][/\ (Len(computeTimers') > Len(computeTimers) \/ (~working /\ working')) =>
          ComputeAllowed
     /\ OnWordle(compute) =>
          /\ ComputeAllowed
          /\ working' /\ results' = NoResults /\ impossibleRows' = << >>
          /\ Len(computeTimers') = Len(computeTimers) + 1
    ]_vars

C12_Witness ==
  /\ wordleMounted /\ working /\ Len(computeTimers) = 1
  /\ solution = <<"c","o","l","o","r">>
  /\ grid = [BlankGrid EXCEPT ![6][5] = 3]
  /\ words = computeTimers[1].words /\ Len(words) = 5

\* the text stated for the sequence: the rows of g from `row` on that are
\* not blank, each giving its pick, or `placeholder` when the pick is
\* empty, with " · " before the next such row
RECURSIVE SequenceFrom(_, _, _, _)
SequenceFrom(picks, g, row, placeholder) ==
  IF row > 6 THEN << >>
  ELSE IF BlankRow(g, row) THEN SequenceFrom(picks, g, row + 1, placeholder)
  ELSE (IF Len(picks[row]) # 0 THEN picks[row] ELSE placeholder)
       \o (IF \E later \in (row + 1)..6 : ~BlankRow(g, later)
           THEN <<" ", MiddleDot, " ">> ELSE << >>)
       \o SequenceFrom(picks, g, row + 1, placeholder)

\* every pick is the first candidate of its row, "" for a row without one
PicksAreFirst ==
  /\ Len(results.picks) = Len(results.candidates)
  /\ \A row \in 1..Len(results.candidates) :
       \/ /\ results.candidates[row] = << >>
          /\ results.picks[row] = << >>
       \/ /\ results.candidates[row] # << >>
          /\ results.picks[row] = Head(results.candidates[row])

\* C13 as stated: with the results of a Compute, picks[i] is the first
\* candidate of row i or the empty string, and the suggested sequence is
\* the picks of the painted rows in row order joined by " · ", blank
\* rows skipped.
C13_Original ==
  (wordleMounted /\ Len(results.candidates) = 6) =>
    /\ PicksAreFirst
    /\ sequence = SequenceFrom(results.picks, grid, 1, << >>)

\* C13 amended: with the results of a Compute, picks[i] is the first
\* candidate of row i or the empty string, and the suggested sequence is,
\* for the rows painted in the current grid in row order, the pick of the
\* row, or the dash U+2014 when that pick is empty, joined by " · ",
\* blank rows skipped.
C13_Amended ==
  (wordleMounted /\ Len(results.candidates) = 6) =>
    /\ PicksAreFirst
    /\ sequence = SequenceFrom(results.picks, grid, 1, <<EmDash>>)

C13_Witness ==
  /\ wordleMounted /\ ~working /\ grid = DemoGrid /\ words = FallbackWords
  /\ results.picks = << << >>, << >>, <<"e","v","a","d","e">>, <<"e","v","a","d","e">>,
                        << >>, <<"c","i","g","a","r">> >>
  /\ Len(results.candidates[3]) > 1
  /\ sequence[1] = EmDash /\ Len(sequence) = 33

\* the rows of g that are painted and have no candidate, counted from 1
RowsWithoutMatch(g, cands) ==
  {row \in 1..6 : ~BlankRow(g, row) /\ Len(cands[row]) = 0}
\* imps lists the 0-based indices of exactly these rows, increasing
ListsRows(imps, rows) ==
  /\ Len(imps) = Cardinality(rows)
  /\ \A k \in 1..Len(imps) : imps[k] + 1 \in rows
  /\ \A k \in 1..Len(imps) : \A n \in 1..Len(imps) : k < n => imps[k] < imps[n]
BoxesApart ==
  /\ SuggestedSequenceBox => Len(impossibleRows) = 0
  /\ ~(ImpossibleRowsBox /\ SuggestedSequenceBox)

\* C14: when a Compute completes, impossibleRows is the increasing list of
\* the indices of the rows that were painted when Compute was clicked and
\* have an empty candidate list, a blank row is never listed; the Suggested
\* Sequence box is shown only while impossibleRows is empty, never together
\* with the Impossible Rows box.
C14_ImpossibleRows ==
  [][/\ Len(computeTimers') < Len(computeTimers) =>
          ListsRows(impossibleRows',
                    RowsWithoutMatch(RowsOf(Head(computeTimers)), results'.candidates))
     /\ BoxesApart /\ BoxesApart'
    ]_vars

C14_Witness ==
  /\ wordleMounted /\ ~working /\ Len(results.candidates) = 6
  /\ grid = [BlankGrid EXCEPT ![6][5] = 3]
  /\ impossibleRows = <<5>>
  /\ ImpossibleRowsBox /\ ~SuggestedSequenceBox

\* the tokens of a text: its maximal runs of characters that are not white
\* space, as pairs <<first, last>> of places
WhiteSpace == {" ", "\t", "\n", "\r", "\f"}
TokenSpans(txt) ==
  {span \in (1..Len(txt)) \X (1..Len(txt)) :
     /\ span[1] <= span[2]
     /\ \A p \in span[1]..span[2] : txt[p] \notin WhiteSpace
     /\ span[1] = 1 \/ txt[span[1] - 1] \in WhiteSpace
     /\ span[2] = Len(txt) \/ txt[span[2] + 1] \in WhiteSpace}
\* the token lower-cased, without its characters outside a-z
RECURSIVE LettersOf(_)
LettersOf(token) ==
  IF Len(token) = 0 THEN << >>
  ELSE LET front == SubSeq(token, 1, Len(token) - 1)
           last == token[Len(token)]
       IN  IF \E n \in 1..26 : last = LowerLetters[n] THEN Append(LettersOf(front), last)
           ELSE IF \E n \in 1..26 : last = UpperLetters[n]
           THEN Append(LettersOf(front),
                       LowerLetters[CHOOSE n \in 1..26 : last = UpperLetters[n]])
           ELSE LettersOf(front)
\* out is the list stated for the text: the five-letter tokens in the order
\* of the text, each listed once, at its first place
IsStatedList(out, txt) ==
  LET kept == {span \in TokenSpans(txt) :
                 Len(LettersOf(SubSeq(txt, span[1], span[2]))) = 5}
      wordAt(span) == LettersOf(SubSeq(txt, span[1], span[2]))
      firsts == {span \in kept :
                   \A other \in kept : other[1] < span[1] => wordAt(other) # wordAt(span)}
  IN  /\ Len(out) = Cardinality(firsts)
      /\ \A k \in 1..Len(out) :
           \E span \in firsts :
              /\ out[k] = wordAt(span)
              /\ Cardinality({other \in firsts : other[1] < span[1]}) = k - 1

\* this step is the end of the read of an uploaded file that has a word
FileLoads(k) ==
  /\ k \in 1..Len(loads)
  /\ loads[k].at = "file.text"
  /\ loads[k].file.text.ok
  /\ \E span \in TokenSpans(loads[k].file.text.value) :
       Len(LettersOf(SubSeq(loads[k].file.text.value, span[1], span[2]))) = 5
  /\ loads' = Without(loads, k)

\* C15: a load of an uploaded word list that succeeds sets words to the
\* tokens of the text (split on white space), each lower-cased and without
\* its characters outside a-z, kept iff exactly five letters remain, every
\* word once at its first occurrence; error is cleared and loading is false.
C15_UploadedList ==
  [][\A k \in 1..Len(loads) :
       FileLoads(k) =>
         /\ IsStatedList(words', loads[k].file.text.value)
         /\ error' = << >> /\ loading' = FALSE
         /\ status' = <<"Loaded ", ToString(Len(words')), " words from ", loads[k].file.name>>
    ]_vars

C15_Witness ==
  /\ wordleMounted /\ loads = << >> /\ ~loading /\ error = << >>
  /\ words = << <<"c","i","g","a","r">>, <<"c","o","l","o","r">>,
                <<"w","o","r","d","s">>, <<"g","a","m","i","c">> >>
  /\ status = <<"Loaded ", "4", " words from ", "words.txt">>

\* the fraction f is num / den
IsFraction(f, num, den) == f.d > 0 /\ f.n * den = num * f.d
\* the angle a is 4 t - pi/2 at t = 3 k / 600
IsQ1At(a, k) == IsFraction(a.rat, 12 * k, 600) /\ IsFraction(a.pi, -1, 2)
\* p is q3 times fn(q1) at t = 3 k / 600, with q3 = 3 t + 1
IsQ3TimesAt(p, fn, k) ==
  /\ p.op = "*" /\ IsFraction(p.left, 9 * k + 600, 600)
  /\ p.right.fn = fn /\ IsQ1At(p.right.of, k)
\* the precomputed trajectory is the closed form at every frame
TrajectoryAsStated ==
  /\ DOMAIN T = 0..600 /\ DOMAIN x = 0..600 /\ DOMAIN y = 0..600 /\ DOMAIN z = 0..600
  /\ T[0] = Whole(0) /\ T[600] = Whole(3)
  /\ \A k \in 0..600 :
       /\ IsFraction(T[k], 3 * k, 600)
       /\ IsQ3TimesAt(x[k], "cos", k)
       /\ IsQ3TimesAt(y[k], "sin", k)
       /\ IsFraction(z[k], 600 + (3600 - 6 * k), 600)

\* C16: for every frame index 0..600, T is 3 i / 600 (0 at the first frame,
\* 3 at the last), the trajectory point is (q3 cos q1, q3 sin q1, l0 + q2)
\* with q1 = 4t - pi/2, q2 = 6 - 2t, q3 = 3t + 1 and l0 = 1 at t = T[i],
\* and the translation column of the matrix shown for the current frame is
\* the trajectory point of that frame.
C16_Trajectory ==
  rttMounted =>
    /\ i \in 0..600
    /\ TrajectoryAsStated
    /\ <<numericT[1][4], numericT[2][4], numericT[3][4]>> = <<x[i], y[i], z[i]>>
    /\ numericT[4] = <<Whole(0), Whole(0), Whole(0), Whole(1)>>

C16_Witness ==
  /\ rttMounted /\ i = 600 /\ ~playing /\ t = Whole(3)
  /\ numericT[3][4] = Whole(1)
  /\ numericT[1][4] = Times(Whole(10), CosOf([rat |-> Whole(12), pi |-> Frac(-1, 2)]))

(***************************************************************************)
(* CLAIMS about the user point, the debounce and the joint chain of        *)
(* InteractiveArm                                                          *)
(***************************************************************************)
\* the user point is the raw (x, y) of M.[0,0,1], its third column
IsRawPoint(p, M) == p = [x |-> M[1][3], y |-> M[2][3]]
\* the user point is (x / w, y / w): p.x * w = x and p.y * w = y
IsDividedPoint(p, M) ==
  /\ DOMAIN p = {"x", "y"}
  /\ Mul(p.x, M[3][3]) = M[1][3]
  /\ Mul(p.y, M[3][3]) = M[2][3]

\* C17: with a user matrix, w being the third component of Tuser.[0,0,1]:
\* with "Normalize by w" on and w # 0 the user point is (x/w, y/w); with
\* the option off, or w = 0, it is the raw (x, y); and for a matrix with
\* last row [0,0,1] the user point is the same with the option on or off.
C17_NormalizeByW ==
  (armMounted /\ Tuser # null) =>
    /\ (normalizeW /\ Tuser[3][3] # Zero) => IsDividedPoint(endUser, Tuser)
    /\ (~normalizeW \/ Tuser[3][3] = Zero) => IsRawPoint(endUser, Tuser)
    /\ Tuser[3] = <<Zero, Zero, One>> =>
         /\ endUserOf(endUserRaw, TRUE) = endUserOf(endUserRaw, FALSE)
         /\ IsRawPoint(endUser, Tuser)

C17_Witness ==
  /\ armMounted /\ normalizeW /\ Tuser # null /\ evalTimer = null
  /\ Tuser[3][3] = NInt(2)
  /\ endUser.x # Tuser[1][3]
  /\ Add(endUser.x, endUser.x) = Tuser[1][3]

\* the inputs the effect depends on
EffectInputs == <<rawCells, l1, l2, l3, t1deg, t2deg, t3deg>>
\* at most one timer, and it holds the values of the latest change
OneCurrentTimer ==
  \/ evalTimer = null
  \/ /\ armMounted
     /\ DOMAIN evalTimer = {"cells", "in"}
     /\ evalTimer.cells = rawCells
     /\ evalTimer.in = CurrentInputs
\* this step runs an evaluation
EvaluationRuns == Tuser' # Tuser \/ msg' # msg \/ OnArm(EvalTimerFires)

\* C18: the evaluation of the user matrix is debounced.  At most one timer
\* is pending; a change of a matrix cell, a link length or a joint angle
\* replaces the pending timer by a new one for the new values; an
\* evaluation runs only from the pending timer, with the latest values,
\* and leaves no timer, so it runs once; a pending timer eventually goes,
\* by its evaluation unless the page is closed; with the page closed no
\* timer is pending and no evaluation runs.
C18_Debounce ==
  /\ [](OneCurrentTimer /\ (~armMounted => evalTimer = null))
  /\ [][/\ (armMounted /\ armMounted' /\ EffectInputs' # EffectInputs) =>
             /\ evalTimer' = [cells |-> rawCells', in |-> CurrentInputs']
             /\ UNCHANGED <<Tuser, msg>>
        /\ (armMounted' /\ EvaluationRuns) =>
             /\ armMounted /\ evalTimer # null /\ evalTimer' = null
             /\ EffectInputs' = EffectInputs
             /\ <<Tuser', msg'>> = EvaluateMatrix(rawCells, CurrentInputs)
        /\ ~armMounted' => Tuser' = null /\ msg' = null
       ]_vars
  /\ (armMounted /\ evalTimer # null) ~> (evalTimer = null)

C18_Witness ==
  /\ armMounted /\ changes = 2 /\ evalTimer = null /\ Tuser # null
  /\ l1 = 40 /\ rawCells[1][3] = "2*l1*cos(th1)"

\* the link from point k to point k + 1: l_k times (cos, sin) of the
\* cumulative angle theta_1 + .. + theta_k
LinkVector(k) ==
  [x |-> Mul(NInt(LinkLen(k)), MathCos(toRad(CumDeg(k)))),
   y |-> Mul(NInt(LinkLen(k)), MathSin(toRad(CumDeg(k))))]
\* pts is the chain stated for n links and ends in the point fk
ChainAsStated(pts, n, fk) ==
  /\ Len(pts) = n + 1
  /\ pts[1] = [x |-> Zero, y |-> Zero]
  /\ \A k \in 1..n :
       pts[k + 1] = [x |-> Add(pts[k].x, LinkVector(k).x),
                     y |-> Add(pts[k].y, LinkVector(k).y)]
  /\ pts[Len(pts)] = fk

\* C19: for every numArms in 1..3 and every slider setting the joint chain
\* has numArms + 1 points, starts at (0,0), each point is the one before
\* plus l_k (cos, sin) of the cumulative angle, and its last point, where
\* the FK dot is drawn, is endFK of the matrix product.
C19_ChainAgrees ==
  armMounted => numArms \in 1..3 /\ ChainAsStated(joints, numArms, endFK)

C19_Witness ==
  /\ armMounted /\ numArms = 3 /\ t1deg = 0 /\ t2deg = -90 /\ t3deg = 180
  /\ l1 = 40 /\ l2 = 260 /\ l3 = 40
  /\ joints[4] = [x |-> NInt(40), y |-> NInt(-220)]
  /\ endFK = joints[4]

====
